---- MODULE Spec2Model ----
(***************************************************************************)
(* Cross-chain transfer orchestrator of the backend API: the deposit       *)
(* workflow (DepositService, POST /initialize), the withdraw workflow      *)
(* (WithdrawService) and the resumption scheduler (CronService).           *)
(*                                                                         *)
(* Every `await` of the TypeScript code is one step of the model: the      *)
(* effect of the awaited store / chain / HTTP operation together with the  *)
(* synchronous code that follows it up to the next await.  Request         *)
(* handlers run concurrently on the Node event loop, so their steps        *)
(* interleave freely.                                                      *)
(***************************************************************************)
EXTENDS Integers, Sequences, FiniteSets, Bags, TLC

(* ----------------------------- bounds ---------------------------------- *)
\* concurrent POST /initialize requests
NumHandlers == 2

\* documents a collection holds when its operations are followed on their own
MaxDocs == 2

(* ------------------------ program constants ---------------------------- *)
\* fluid.service.ts:701  const maxAttempts = 12
maxAttempts == 12

\* values a request may carry as bridgeTransactionHash; "" is a request body
\* without the field (deposit.ts:204 does not validate it)
NoHash == ""
Hashes == {NoHash, "0xburn"}

\* statuses of depositStatusSchema
DepositStatuses ==
  {"pending_attestation", "attestation_received", "processing_deposit",
   "deposit_confirmed", "completed", "failed"}

\* statuses of withdrawStatusSchema
WithdrawStatuses ==
  {"checking_position", "position_found", "initiating_withdraw", "withdraw_initiated",
   "pending_attestation", "attestation_received", "processing_withdraw",
   "completed", "failed"}

\* checkUserPosition: const supportedDomains = [0, 2, 3, 6]
supportedDomains == <<0, 2, 3, 6>>

\* the settlement chain of every withdraw (WORLD)
WORLD == 14

\* the chain on which the modelled account can hold a position (the second of
\* the scan order, so that a scan passes an empty or failing chain first)
PositionDomains == {2}

\* withdraw.ts: userAddress.length !== 42
AddressLength == 42

\* the account of the withdraw requests: what the route tests of an address is
\* its prefix and its length
UserAddress == [prefix |-> "0x", length |-> AddressLength]

\* the :userAddress values a request may carry
RequestAddresses ==
  {UserAddress,
   [prefix |-> "", length |-> AddressLength],
   [prefix |-> "0x", length |-> AddressLength - 2]}

\* !(!userAddress || !userAddress.startsWith('0x') || userAddress.length !== 42)
ValidAddress(address) ==
  address.prefix = "0x" /\ address.length = AddressLength

\* the request bodies of POST /initialize: the fields the route validates are
\* all present and supported, or one is missing, or a chain id or the protocol
\* is unsupported; bridgeTransactionHash is present or not
DepositBodies ==
  [fields : {"valid", "missing", "unsupported"}, bridgeTransactionHash : Hashes]

\* the four validations of POST /initialize; none reads bridgeTransactionHash
ValidDepositRequest(body) ==
  body.fields = "valid"

\* what one positions() read returns: -1 the read fails, 0 no position,
\* otherwise the pool id of the position
ReadOutcomes == {-1, 0, 2}

\* error messages
ERR_ATTESTATION == "Attestation timeout or not found"
ERR_SUBMIT == "Failed to process deposit: request failed"
ERR_REVERT == "Failed to process deposit: Transaction failed"
ERR_RECEIPT_TIMEOUT == "Failed to process deposit: Timed out while waiting for transaction"
ERR_W_SUBMIT == "Failed to call processWithdraw: request failed"
ERR_W_REVERT == "Failed to call processWithdraw: Transaction failed"
ERR_W_RECEIPT_TIMEOUT == "Failed to call processWithdraw: Timed out while waiting for transaction"
ERR_INIT_SUBMIT == "Failed to call initWithdraw: request failed"
ERR_INIT_REVERT == "Failed to call initWithdraw: Transaction failed"
ERR_INIT_RECEIPT_TIMEOUT == "Failed to call initWithdraw: Timed out while waiting for transaction"
ERR_RETRIEVE == "Failed to retrieve attestation: Request failed with status code 500"
ERR_RETRIEVE_TIMEOUT == "Failed to retrieve attestation: timeout of 30000ms exceeded"
ERR_INVALID_HASH == "Invalid transaction hash provided"
ERR_NO_POSITION == "No position found for this user"
ERR_NOT_FOUND == "Deposit status not found for transaction hash"
ERR_WITHDRAW_NOT_FOUND == "Withdraw status not found"
ERR_BRIDGE_NOT_FOUND == "Bridge status not found"
ERR_STORE == "store error"
ERR_INVALID_REQUEST == "Missing required fields"
ERR_INVALID_ADDRESS == "Invalid user address format"
NoError == ""

VARIABLES
  workflow,       \* what the behaviour exercises: one of the two services, or a
                  \* stateless component on its own
  depositStore,   \* DepositStatus collection: sequence of documents, _id = index
  withdrawStore,  \* WithdrawStatus collection: sequence of documents, _id = index
  handlers,       \* in-flight HTTP requests: a bag of positions-and-locals
  cron,           \* the scheduler pass: position and locals
  isProcessing,   \* CronService.isProcessing
  destTxs,        \* processDeposit / processWithdraw transactions sent
  srcTxs,         \* initWithdraw transactions sent to the source chain
  attRequests,    \* attestation HTTP requests issued: for which document, and
                  \* whether its source transaction hash was set by then
  firstReturned,  \* per hash: _id returned by the first initializedDeposit to return
  audit,          \* per document: what has been persisted on it so far
  lastRaised,     \* the error the most recently finished request raised to its
                  \* route ("" when it returned normally)
  unit            \* one call of a stateless component (position locator or
                  \* attestation client) followed on its own: inputs and result

vars == <<workflow, depositStore, withdrawStore, handlers, cron, isProcessing,
          destTxs, srcTxs, attRequests, firstReturned, audit, lastRaised, unit>>

(* ------------------------------ store ---------------------------------- *)
\* { ...updates } applied over the stored document ($set semantics)
Merge(doc, updates) ==
  [f \in DOMAIN doc |-> IF f \in DOMAIN updates THEN updates[f] ELSE doc[f]]

\* a lookup that matches no document
FindOneUnmatched(store, hash) == 0

\* DepositStatus.findOne({ bridgeTransactionHash }): first match in insertion order
FindOne(store, hash) ==
  IF \E i \in 1..Len(store) : store[i].bridgeTransactionHash = hash
  THEN CHOOSE i \in 1..Len(store) :
         /\ store[i].bridgeTransactionHash = hash
         /\ \A j \in 1..(i - 1) : store[j].bridgeTransactionHash # hash
  ELSE 0

\* new DepositStatus({ ...request, status }).save()
NewDeposit(hash) ==
  [bridgeTransactionHash |-> hash,
   status |-> "pending_attestation",
   attestationMessage |-> "",
   attestation |-> "",
   depositTxHash |-> 0,
   errorMessage |-> NoError]

\* DepositStatus.findByIdAndUpdate(id, { ...updates }): when no document has
\* the id nothing is written
UpdateDepositStatus(store, id, updates) ==
  IF id \in 1..Len(store) THEN [store EXCEPT ![id] = Merge(@, updates)] ELSE store

NewAudit == [attReceived |-> FALSE, completedWrites |-> 0]

\* bookkeeping of what a write persisted on a document
Audited(a, doc, updates) ==
  [attReceived |->
     a.attReceived \/ (/\ doc.status = "attestation_received"
                       /\ doc.attestationMessage # ""
                       /\ doc.attestation # ""),
   completedWrites |->
     IF "status" \in DOMAIN updates /\ updates.status = "completed"
     THEN a.completedWrites + 1 ELSE a.completedWrites]

(* ------------------------- attestation client -------------------------- *)
\* what the attestation service answers to one GET
AttResponses == {"complete", "pending", "http404", "error", "timeout"}

\* a client that issues the GET without validating the transaction hash
RetrieveAttestationUnvalidated(hasHash, resp) ==
  CASE resp = "complete" -> "data"
    [] resp = "pending"  -> "null"
    [] resp = "http404"  -> "null"
    [] OTHER             -> "throw"

\* a client that raises on every answer other than complete
RetrieveAttestationStrict(hasHash, resp) ==
  IF ~hasHash THEN "invalid"
  ELSE IF resp = "complete" THEN "data" ELSE "throw"

\* RetrieveService.retrieveAttestation: "invalid" is thrown before any request
\* is made (no or too short a hash); otherwise one GET decides the outcome
RetrieveAttestation(hasHash, resp) ==
  IF ~hasHash THEN "invalid"
  ELSE CASE resp = "complete" -> "data"
         [] resp = "pending"  -> "null"
         [] resp = "http404"  -> "null"
         [] OTHER             -> "throw"

\* the message of the error retrieveAttestation throws
RetrieveError(hasHash, resp) ==
  IF ~hasHash THEN ERR_INVALID_HASH
  ELSE IF resp = "timeout" THEN ERR_RETRIEVE_TIMEOUT ELSE ERR_RETRIEVE

\* error.message.includes('timeout')
IncludesTimeout(e) == e \in {ERR_ATTESTATION, ERR_RETRIEVE_TIMEOUT}

\* no position found by checkUserPosition
NoPosition == [chainDomain |-> -1, pool |-> 0]

IdleHandler ==
  [pc |-> "idle", hash |-> NoHash, prior |-> 0, initRet |-> 0, created |-> FALSE,
   id |-> 0, attempts |-> 0, data |-> FALSE, err |-> NoError, tx |-> 0,
   found |-> NoPosition]

\* a request whose service call has returned or raised
DoneHandler == [IdleHandler EXCEPT !.pc = "done"]

\* no pass is running. Of a running pass the model also keeps what the query
\* returned (selected), the documents processIndividualWithdraw was called
\* with so far (attempted), and whether a tick was turned away meanwhile
\* (skipped)
IdleCron ==
  [pc |-> "idle", pending |-> <<>>, id |-> 0, hash |-> 0, err |-> NoError,
   tx |-> 0, selected |-> <<>>, attempted |-> <<>>, skipped |-> FALSE]

\* no document id: updateBridgeStatus(undefined, ...) creates one
NoId == [table |-> "", n |-> 0]

\* no store operation has been called
NoCall == [op |-> "", id |-> NoId, hash |-> NoHash, ret |-> ""]

\* no call of a component is being followed; the tables of the stores are
\* empty, let nextId = 1, and the database answers
NoUnit ==
  [pc |-> "none", reads |-> <<>>, i |-> 0, queried |-> <<>>, result |-> NoPosition,
   hasHash |-> FALSE, resp |-> "", out |-> "",
   reachable |-> TRUE, durable |-> <<>>, bridgeStatusStorage |-> <<>>, nextId |-> 1,
   withdraws |-> <<>>, last |-> NoCall]

\* the variables the deposit service leaves alone: those of the withdraw
\* service and the scheduler
withdrawSide == <<workflow, withdrawStore, cron, isProcessing, srcTxs, unit>>

\* the variables the withdraw service and the scheduler leave alone: those of
\* the deposit service
depositSide == <<depositStore, firstReturned, unit>>

\* The two services keep their documents in separate collections and share no
\* state, so a behaviour follows the requests of one of them.
Init ==
  /\ workflow \in {"deposit", "withdraw"}
  /\ depositStore = <<>>
  /\ withdrawStore = <<>>
  /\ handlers = [r \in {IdleHandler} |-> NumHandlers]
  /\ cron = IdleCron
  /\ isProcessing = FALSE
  /\ destTxs = <<>>
  /\ srcTxs = <<>>
  /\ attRequests = {}
  /\ firstReturned = [x \in Hashes |-> 0]
  /\ audit = <<>>
  /\ lastRaised = NoError
  /\ unit = NoUnit

\* request r moves on to r2
Becomes(r, r2) == (handlers (-) SetToBag({r})) (+) SetToBag({r2})

\* request r moves on to r2 inside its service call
Step(r, r2) ==
  /\ handlers' = Becomes(r, r2)
  /\ UNCHANGED lastRaised

\* the service call raises e: the error reaches the route's catch (HTTP 500)
Raise(r, e) ==
  /\ handlers' = Becomes(r, DoneHandler)
  /\ lastRaised' = e

\* the service call returns to the route
Return(r) ==
  /\ handlers' = Becomes(r, DoneHandler)
  /\ lastRaised' = NoError

\* the route answers 400 without calling the service
Reject(r, e) ==
  /\ handlers' = Becomes(r, DoneHandler)
  /\ lastRaised' = e

\* an exception inside a try block: control moves to the catch block
Thrown(r, e) == [r EXCEPT !.pc = "catch", !.err = e, !.hash = NoHash,
                          !.attempts = 0, !.data = FALSE]

(* --------------------------- POST /initialize --------------------------- *)
\* the route validates the body, builds the internal request and calls
\* initializedDeposit
Request(r) ==
  /\ workflow = "deposit"
  /\ r.pc = "idle"
  /\ \E body \in DepositBodies :
       IF ValidDepositRequest(body)
       THEN Step(r, [r EXCEPT !.pc = "init_find", !.hash = body.bridgeTransactionHash,
                              !.prior = firstReturned[body.bridgeTransactionHash]])
       ELSE Reject(r, ERR_INVALID_REQUEST)
  /\ UNCHANGED <<depositStore, firstReturned, destTxs, attRequests, audit>>
  /\ UNCHANGED withdrawSide

\* initializedDeposit: getStatusByTransactionHash, return the existing document
InitFind(r) ==
  /\ r.pc = "init_find"
  /\ \/ LET found == FindOne(depositStore, r.hash) IN
          IF found # 0
          THEN /\ Step(r, [r EXCEPT !.pc = "resume_find", !.initRet = found])
               /\ firstReturned' =
                    [firstReturned EXCEPT ![r.hash] = IF @ = 0 THEN found ELSE @]
          ELSE /\ Step(r, [r EXCEPT !.pc = "init_create"])
               /\ UNCHANGED firstReturned
     \/ /\ Raise(r, ERR_STORE)
        /\ UNCHANGED firstReturned
  /\ UNCHANGED <<depositStore, destTxs, attRequests, audit>>
  /\ UNCHANGED withdrawSide

\* initializedDeposit: updateDepositStatus(undefined, {...request, status})
InitCreate(r) ==
  /\ r.pc = "init_create"
  /\ \/ LET newId == Len(depositStore) + 1 IN
          /\ depositStore' = Append(depositStore, NewDeposit(r.hash))
          /\ audit' = Append(audit, NewAudit)
          /\ Step(r, [r EXCEPT !.pc = "resume_find", !.initRet = newId,
                               !.created = TRUE])
          /\ firstReturned' =
               [firstReturned EXCEPT ![r.hash] = IF @ = 0 THEN newId ELSE @]
     \/ /\ Raise(r, ERR_STORE)
        /\ UNCHANGED <<depositStore, audit, firstReturned>>
  /\ UNCHANGED <<destTxs, attRequests>>
  /\ UNCHANGED withdrawSide

(* --------------- DepositService.waitForConfirmationAndProcess ---------- *)
\* a write of a deposit document; bookkeeping follows the stored document
Write(id, updates) ==
  LET store == UpdateDepositStatus(depositStore, id, updates) IN
    /\ depositStore' = store
    /\ audit' = [audit EXCEPT ![id] = Audited(@, store[id], updates)]

\* let depositStatus = await getStatusByTransactionHash(transactionHash)
ResumeFind(r) ==
  /\ r.pc = "resume_find"
  /\ \/ LET found == FindOne(depositStore, r.hash) IN
          IF found = 0
          THEN Raise(r, ERR_NOT_FOUND)
          ELSE Step(r, [r EXCEPT !.pc = "resume_mark", !.id = found, !.prior = 0,
                                 !.initRet = 0, !.created = FALSE])
     \/ Raise(r, ERR_STORE)
  /\ UNCHANGED <<depositStore, firstReturned, destTxs, attRequests, audit>>
  /\ UNCHANGED withdrawSide

\* updateDepositStatus(_id, { bridgeTransactionHash, status: 'pending_attestation' })
ResumeMark(r) ==
  /\ r.pc = "resume_mark"
  /\ \/ /\ Write(r.id, [bridgeTransactionHash |-> r.hash,
                        status |-> "pending_attestation"])
        /\ Step(r, [r EXCEPT !.pc = "poll"])
     \/ /\ Step(r, Thrown(r, ERR_STORE))
        /\ UNCHANGED <<depositStore, audit>>
  /\ UNCHANGED <<firstReturned, destTxs, attRequests>>
  /\ UNCHANGED withdrawSide

\* a polling loop that gives up at the first poll that raises
PollAbortsOnError(r) ==
  /\ r.pc = "poll"
  /\ r.attempts < maxAttempts
  /\ ~r.data
  /\ \E resp \in AttResponses :
       LET out == RetrieveAttestation(r.hash # NoHash, resp) IN
         /\ attRequests' =
              IF out = "invalid" THEN attRequests
              ELSE attRequests \cup
                     {[hashSet |-> depositStore[r.id].bridgeTransactionHash # NoHash]}
         /\ CASE out = "data" -> Step(r, [r EXCEPT !.data = TRUE, !.pc = "polled"])
              [] out = "null" -> Step(r, [r EXCEPT !.attempts = @ + 1,
                                                   !.pc = IF r.attempts + 1 < maxAttempts
                                                          THEN "poll" ELSE "polled"])
              [] OTHER        -> Step(r, Thrown(r, RetrieveError(r.hash # NoHash, resp)))
  /\ UNCHANGED <<depositStore, firstReturned, destTxs, audit>>
  /\ UNCHANGED withdrawSide

\* one iteration of the polling loop (the loop test follows the increment)
Poll(r) ==
  /\ r.pc = "poll"
  /\ r.attempts < maxAttempts
  /\ ~r.data
  /\ \E resp \in AttResponses :
       LET out == RetrieveAttestation(r.hash # NoHash, resp) IN
         /\ attRequests' =
              IF out = "invalid" THEN attRequests
              ELSE attRequests \cup
                     {[hashSet |-> depositStore[r.id].bridgeTransactionHash # NoHash]}
         /\ IF out = "data"
            THEN Step(r, [r EXCEPT !.data = TRUE, !.pc = "polled"])
            ELSE Step(r, [r EXCEPT !.attempts = @ + 1,
                                   !.pc = IF r.attempts + 1 < maxAttempts
                                          THEN "poll" ELSE "polled"])
  /\ UNCHANGED <<depositStore, firstReturned, destTxs, audit>>
  /\ UNCHANGED withdrawSide

\* after the loop: persist failed and throw, or persist attestation_received
Polled(r) ==
  /\ r.pc = "polled"
  /\ \/ /\ ~r.data
        /\ Write(r.id, [status |-> "failed", errorMessage |-> ERR_ATTESTATION])
        /\ Step(r, Thrown(r, ERR_ATTESTATION))
     \/ /\ r.data
        /\ Write(r.id, [status |-> "attestation_received",
                        attestationMessage |-> "message",
                        attestation |-> "attestation"])
        /\ Step(r, [r EXCEPT !.pc = "process", !.hash = NoHash, !.attempts = 0,
                             !.data = FALSE])
     \/ /\ Step(r, Thrown(r, ERR_STORE))
        /\ UNCHANGED <<depositStore, audit>>
  /\ UNCHANGED <<firstReturned, destTxs, attRequests>>
  /\ UNCHANGED withdrawSide

\* processDeposit: contract.write.processDeposit([message, attestation])
ProcessDeposit(r) ==
  /\ r.pc = "process"
  /\ \/ /\ destTxs' = Append(destTxs, [doc |-> r.id, receipt |-> "sent"])
        /\ Step(r, [r EXCEPT !.pc = "receipt", !.tx = Len(destTxs) + 1])
     \/ /\ Step(r, Thrown(r, ERR_SUBMIT))
        /\ UNCHANGED destTxs
  /\ UNCHANGED <<depositStore, firstReturned, attRequests, audit>>
  /\ UNCHANGED withdrawSide

\* processDeposit: waitForTransactionReceipt({ hash, timeout: 60000 })
Receipt(r) ==
  /\ r.pc = "receipt"
  /\ \E receipt \in {"success", "reverted", "timeout"} :
       /\ destTxs' = [destTxs EXCEPT ![r.tx].receipt = receipt]
       /\ CASE receipt = "success"  -> Step(r, [r EXCEPT !.pc = "confirm"])
            [] receipt = "reverted" -> Step(r, [Thrown(r, ERR_REVERT) EXCEPT !.tx = 0])
            [] OTHER -> Step(r, [Thrown(r, ERR_RECEIPT_TIMEOUT) EXCEPT !.tx = 0])
  /\ UNCHANGED <<depositStore, firstReturned, attRequests, audit>>
  /\ UNCHANGED withdrawSide

\* updateDepositStatus(_id, { status: 'deposit_confirmed', depositTxHash })
Confirm(r) ==
  /\ r.pc = "confirm"
  /\ \/ /\ Write(r.id, [status |-> "deposit_confirmed", depositTxHash |-> r.tx])
        /\ Step(r, [r EXCEPT !.pc = "complete", !.tx = 0])
     \/ /\ Step(r, [Thrown(r, ERR_STORE) EXCEPT !.tx = 0])
        /\ UNCHANGED <<depositStore, audit>>
  /\ UNCHANGED <<firstReturned, destTxs, attRequests>>
  /\ UNCHANGED withdrawSide

\* updateDepositStatus(_id, { status: 'completed' }); return depositStatus
Complete(r) ==
  /\ r.pc = "complete"
  /\ \/ /\ Write(r.id, [status |-> "completed"])
        /\ Return(r)
     \/ /\ Step(r, Thrown(r, ERR_STORE))
        /\ UNCHANGED <<depositStore, audit>>
  /\ UNCHANGED <<firstReturned, destTxs, attRequests>>
  /\ UNCHANGED withdrawSide

\* catch (error): updateDepositStatus(_id, { status: 'failed', errorMessage }); throw
Catch(r) ==
  /\ r.pc = "catch"
  /\ \/ /\ Write(r.id, [status |-> "failed", errorMessage |-> r.err])
        /\ Raise(r, r.err)
     \/ /\ Raise(r, ERR_STORE)
        /\ UNCHANGED <<depositStore, audit>>
  /\ UNCHANGED <<firstReturned, destTxs, attRequests>>
  /\ UNCHANGED withdrawSide

(* ------------------------------ withdraw store -------------------------- *)
\* a save that drops the error detail of the document
NewWithdrawNoDetail(found, status, errorMessage) ==
  [userAddress |-> UserAddress,
   position |-> found.pool,
   srcChainDomain |-> IF found = NoPosition THEN 0 ELSE found.chainDomain,
   dstChainDomain |-> WORLD,
   status |-> status,
   initWithdrawTxHash |-> 0,
   attestationMessage |-> "",
   attestation |-> "",
   processWithdrawTxHash |-> 0,
   errorMessage |-> NoError]

\* new WithdrawStatus({ ...updates }).save()
NewWithdraw(found, status, errorMessage) ==
  [userAddress |-> UserAddress,
   position |-> found.pool,
   srcChainDomain |-> IF found = NoPosition THEN 0 ELSE found.chainDomain,
   dstChainDomain |-> WORLD,
   status |-> status,
   initWithdrawTxHash |-> 0,
   attestationMessage |-> "",
   attestation |-> "",
   processWithdrawTxHash |-> 0,
   errorMessage |-> errorMessage]

\* an update that inserts a document when no document has the id
UpdateWithdrawStatusUpsert(store, id, updates) ==
  IF id \in 1..Len(store) THEN [store EXCEPT ![id] = Merge(@, updates)]
  ELSE Append(store, Merge(NewWithdraw(NoPosition, "failed", NoError), updates))

\* an update that replaces the document by the fields given, dropping the
\* position snapshot and the source chain of the stored one
UpdateWithdrawStatusReplacing(store, id, updates) ==
  IF id \in 1..Len(store)
  THEN [store EXCEPT ![id] = Merge(NewWithdraw(NoPosition, @.status, @.errorMessage),
                                   updates)]
  ELSE store

\* WithdrawStatus.findByIdAndUpdate(id, { ...updates }): when no document has
\* the id nothing is written
UpdateWithdrawStatus(store, id, updates) ==
  IF id \in 1..Len(store) THEN [store EXCEPT ![id] = Merge(@, updates)] ELSE store

\* a write of a withdraw document; bookkeeping follows the stored document
WWrite(id, updates) ==
  LET store == UpdateWithdrawStatus(withdrawStore, id, updates) IN
    /\ withdrawStore' = store
    /\ audit' = [audit EXCEPT ![id] = Audited(@, store[id], updates)]

\* a query that selects the documents of every status
RECURSIVE WithdrawsFrom(_, _)
WithdrawsFrom(store, i) ==
  IF i > Len(store) THEN <<>>
  ELSE <<[id |-> i, initWithdrawTxHash |-> store[i].initWithdrawTxHash]>>
         \o WithdrawsFrom(store, i + 1)

\* WithdrawStatus.find({ status: 'pending_attestation',
\*   initWithdrawTxHash: { $exists: true, $ne: null } }).sort({ createdAt: 1 })
RECURSIVE PendingFrom(_, _)
PendingFrom(store, i) ==
  IF i > Len(store) THEN <<>>
  ELSE IF store[i].status = "pending_attestation" /\ store[i].initWithdrawTxHash # 0
       THEN <<[id |-> i, initWithdrawTxHash |-> store[i].initWithdrawTxHash]>>
              \o PendingFrom(store, i + 1)
       ELSE PendingFrom(store, i + 1)

GetPendingAttestationWithdraws(store) == PendingFrom(store, 1)

(* ---------------------------- position locator -------------------------- *)
\* checkUserPosition: the first supported domain whose read succeeds with pool > 0
RECURSIVE ScanFrom(_, _)
ScanFrom(reads, i) ==
  IF i > Len(supportedDomains) THEN NoPosition
  ELSE LET domain == supportedDomains[i] IN
         IF reads[domain] > 0
         THEN [chainDomain |-> domain, pool |-> reads[domain]]
         ELSE ScanFrom(reads, i + 1)

\* a scan that leaves out the first configured chain
CheckUserPositionSkippingFirst(reads) == ScanFrom(reads, 2)

CheckUserPosition(reads) ==
  ScanFrom(reads, 1)

DomainSet == {supportedDomains[i] : i \in 1..Len(supportedDomains)}

\* the reads one scan can meet: positions live on the chains of PositionDomains
ChainReads ==
  {reads \in [DomainSet -> ReadOutcomes] :
     \A d \in DomainSet \ PositionDomains : reads[d] <= 0}

\* the first document of the user on which an initWithdraw transaction hash is
\* stored (0 when there is none); initializeWithdrawProcess itself never looks
\* it up, the request only remembers what the store held when it arrived
InitiatedWithdraw(store) ==
  IF \E i \in 1..Len(store) : store[i].initWithdrawTxHash # 0
  THEN CHOOSE i \in 1..Len(store) :
         /\ store[i].initWithdrawTxHash # 0
         /\ \A j \in 1..(i - 1) : store[j].initWithdrawTxHash = 0
  ELSE 0

(* --------------- POST /withdraw/initialize/:userAddress ----------------- *)
\* the route validates the address and calls initializeWithdrawProcess(userAddress)
WRequest(r) ==
  /\ workflow = "withdraw"
  /\ r.pc = "idle"
  /\ \E address \in RequestAddresses :
       IF ValidAddress(address)
       THEN Step(r, [r EXCEPT !.pc = "w_check",
                              !.prior = InitiatedWithdraw(withdrawStore)])
       ELSE Reject(r, ERR_INVALID_ADDRESS)
  /\ UNCHANGED <<workflow, withdrawStore, cron, isProcessing, srcTxs, destTxs,
                 attRequests, audit>>
  /\ UNCHANGED depositSide

\* const positionResult = await this.checkUserPosition(userAddress)
WCheck(r) ==
  /\ r.pc = "w_check"
  /\ \E reads \in ChainReads :
       LET found == CheckUserPosition(reads) IN
         Step(r, [r EXCEPT !.found = found,
                           !.pc = IF found = NoPosition THEN "w_nopos" ELSE "w_create"])
  /\ UNCHANGED <<workflow, withdrawStore, cron, isProcessing, srcTxs, destTxs,
                 attRequests, audit>>
  /\ UNCHANGED depositSide

\* no position: persist a failed document with a zeroed position, then throw
WNoPosition(r) ==
  /\ r.pc = "w_nopos"
  /\ \/ /\ withdrawStore' =
             Append(withdrawStore, NewWithdraw(NoPosition, "failed", ERR_NO_POSITION))
        /\ audit' = Append(audit, NewAudit)
        /\ Raise(r, ERR_NO_POSITION)
     \/ /\ Raise(r, ERR_STORE)
        /\ UNCHANGED <<withdrawStore, audit>>
  /\ UNCHANGED <<workflow, cron, isProcessing, srcTxs, destTxs, attRequests>>
  /\ UNCHANGED depositSide

\* position found: persist the document in initiating_withdraw
WCreate(r) ==
  /\ r.pc = "w_create"
  /\ \/ /\ withdrawStore' =
             Append(withdrawStore, NewWithdraw(r.found, "initiating_withdraw", NoError))
        /\ audit' = Append(audit, NewAudit)
        /\ Step(r, [r EXCEPT !.pc = "w_submit", !.id = Len(withdrawStore) + 1,
                             !.found = NoPosition])
     \/ /\ Raise(r, ERR_STORE)
        /\ UNCHANGED <<withdrawStore, audit>>
  /\ UNCHANGED <<workflow, cron, isProcessing, srcTxs, destTxs, attRequests>>
  /\ UNCHANGED depositSide

\* callInitWithdraw: contract.write.initWithdraw([userAddress])
WSubmit(r) ==
  /\ r.pc = "w_submit"
  /\ \/ /\ srcTxs' = Append(srcTxs, [doc |-> r.id, receipt |-> "sent"])
        /\ Step(r, [r EXCEPT !.pc = "w_receipt", !.tx = Len(srcTxs) + 1, !.prior = 0])
     \/ /\ Raise(r, ERR_INIT_SUBMIT)
        /\ UNCHANGED srcTxs
  /\ UNCHANGED <<workflow, withdrawStore, cron, isProcessing, destTxs, attRequests,
                 audit>>
  /\ UNCHANGED depositSide

\* callInitWithdraw: waitForTransactionReceipt({ hash, timeout: 60000 })
WReceipt(r) ==
  /\ r.pc = "w_receipt"
  /\ \E receipt \in {"success", "reverted", "timeout"} :
       /\ srcTxs' = [srcTxs EXCEPT ![r.tx].receipt = receipt]
       /\ CASE receipt = "success"  -> Step(r, [r EXCEPT !.pc = "w_update"])
            [] receipt = "reverted" -> Raise(r, ERR_INIT_REVERT)
            [] OTHER                -> Raise(r, ERR_INIT_RECEIPT_TIMEOUT)
  /\ UNCHANGED <<workflow, withdrawStore, cron, isProcessing, destTxs, attRequests,
                 audit>>
  /\ UNCHANGED depositSide

\* an initiation that goes on to settle on the destination chain before returning
WUpdateSettling(r) ==
  /\ r.pc = "w_update"
  /\ WWrite(r.id, [status |-> "pending_attestation", initWithdrawTxHash |-> r.tx])
  /\ destTxs' = Append(destTxs, [doc |-> r.id, receipt |-> "sent"])
  /\ Return(r)
  /\ UNCHANGED <<workflow, cron, isProcessing, srcTxs, attRequests>>
  /\ UNCHANGED depositSide

\* updateWithdrawStatus(_id, { status: 'pending_attestation', initWithdrawTxHash })
WUpdate(r) ==
  /\ r.pc = "w_update"
  /\ \/ /\ WWrite(r.id, [status |-> "pending_attestation", initWithdrawTxHash |-> r.tx])
        /\ Return(r)
     \/ /\ Raise(r, ERR_STORE)
        /\ UNCHANGED <<withdrawStore, audit>>
  /\ UNCHANGED <<workflow, cron, isProcessing, srcTxs, destTxs, attRequests>>
  /\ UNCHANGED depositSide

(* ------------------------------ CronService ----------------------------- *)
\* the for loop of processPendingAttestations reaches its next iteration:
\* processIndividualWithdraw returns at once for a snapshot without
\* initWithdrawTxHash; after the last snapshot the finally block runs
RECURSIVE LoopOver(_)
LoopOver(pending) ==
  IF pending = <<>> THEN IdleCron
  ELSE IF Head(pending).initWithdrawTxHash = 0 THEN LoopOver(Tail(pending))
       ELSE [IdleCron EXCEPT !.pc = "c_poll", !.pending = Tail(pending),
                             !.id = Head(pending).id,
                             !.hash = Head(pending).initWithdrawTxHash]

\* a pass without the finally block: the flag is reset only when the loop
\* ends after a document that raised nothing
CronBecomesNoFinally(c) ==
  /\ cron' = IF c.pc = "idle" THEN IdleCron
             ELSE [c EXCEPT !.selected = IF cron.pc = "query" THEN c.selected
                                         ELSE cron.selected,
                            !.skipped = cron.skipped,
                            !.attempted = IF c.pc = "c_poll"
                                          THEN Append(cron.attempted, c.id)
                                          ELSE cron.attempted]
  /\ isProcessing' = (c.pc # "idle" \/ cron.pc \in {"query", "c_fail"})

\* the pass moves to the state c, entering processIndividualWithdraw when c is
\* at its first statement; isProcessing is reset when the pass ends
CronBecomes(c) ==
  /\ cron' = IF c.pc = "idle" THEN IdleCron
             ELSE [c EXCEPT !.selected = IF cron.pc = "query" THEN c.selected
                                         ELSE cron.selected,
                            !.skipped = cron.skipped,
                            !.attempted = IF c.pc = "c_poll"
                                          THEN Append(cron.attempted, c.id)
                                          ELSE cron.attempted]
  /\ isProcessing' = (c.pc # "idle")

\* an error inside processWithdrawWithAttestation's try block
CronThrow(e) == [cron EXCEPT !.pc = "c_catch", !.err = e]

\* an error that reaches the catch block of processIndividualWithdraw
CronFail(e) == [cron EXCEPT !.pc = "c_fail", !.err = e]

\* a tick that starts a pass whatever isProcessing says
TickNeverSkips(busy) ==
  FALSE

\* if (this.isProcessing) { ...; return; }
TickSkips(busy) ==
  busy

\* a loop that a failure of one document ends
AfterFailureAbort(pending) ==
  IdleCron

\* processPendingAttestations, catch (error) inside the for loop, and the
\* return of processIndividualWithdraw after its own catch: the loop goes on
\* with the next document
AfterFailure(pending) ==
  LoopOver(pending)

\* cron.schedule('*/2 * * * *'): a tick returns at once while a pass is
\* running, and starts a pass otherwise
Tick ==
  /\ workflow = "withdraw"
  /\ IF TickSkips(isProcessing)
     THEN /\ cron' = [cron EXCEPT !.skipped = TRUE]
          /\ UNCHANGED isProcessing
     ELSE /\ cron' = [cron EXCEPT !.pc = "query"]
          /\ isProcessing' = TRUE
  /\ UNCHANGED <<workflow, withdrawStore, handlers, lastRaised, srcTxs, destTxs, attRequests,
                 audit>>
  /\ UNCHANGED depositSide

\* const pendingWithdraws = await getPendingAttestationWithdraws()
Query ==
  /\ cron.pc = "query"
  /\ \/ LET pendingWithdraws == GetPendingAttestationWithdraws(withdrawStore) IN
          CronBecomes([LoopOver(pendingWithdraws) EXCEPT
                         !.selected = [k \in 1..Len(pendingWithdraws) |->
                                         pendingWithdraws[k].id]])
     \/ CronBecomes(IdleCron)
  /\ UNCHANGED <<workflow, withdrawStore, handlers, lastRaised, srcTxs, destTxs, attRequests,
                 audit>>
  /\ UNCHANGED depositSide

\* a pass that treats an attestation that is not ready as a failure of the
\* record
CPollAnswersOrFails(resp) ==
  /\ cron.pc = "c_poll"
  /\ LET out == RetrieveAttestation(cron.hash # 0, resp) IN
       /\ attRequests' =
            IF out = "invalid" THEN attRequests
            ELSE attRequests \cup
                   {[hashSet |-> withdrawStore[cron.id].initWithdrawTxHash # 0]}
       /\ CASE out = "data" -> CronBecomes([cron EXCEPT !.pc = "c_get"])
            [] out = "null" -> CronBecomes(CronFail(ERR_ATTESTATION))
            [] OTHER        -> CronBecomes(CronFail(RetrieveError(cron.hash # 0, resp)))
  /\ UNCHANGED <<workflow, withdrawStore, handlers, lastRaised, srcTxs, destTxs, audit>>
  /\ UNCHANGED depositSide

\* processIndividualWithdraw: retrieveAttestation(initWithdrawTxHash, srcChainDomain)
CPollAnswers(resp) ==
  /\ cron.pc = "c_poll"
  /\ LET out == RetrieveAttestation(cron.hash # 0, resp) IN
       /\ attRequests' =
            IF out = "invalid" THEN attRequests
            ELSE attRequests \cup
                   {[hashSet |-> withdrawStore[cron.id].initWithdrawTxHash # 0]}
       /\ CASE out = "data" -> CronBecomes([cron EXCEPT !.pc = "c_get"])
            [] out = "null" -> CronBecomes(LoopOver(cron.pending))
            [] OTHER        -> CronBecomes(CronFail(RetrieveError(cron.hash # 0, resp)))
  /\ UNCHANGED <<workflow, withdrawStore, handlers, lastRaised, srcTxs, destTxs, audit>>
  /\ UNCHANGED depositSide

\* the attestation service answers the poll one way or another
CPoll ==
  \E resp \in AttResponses : CPollAnswers(resp)

\* processWithdrawWithAttestation: let withdrawStatus = await getWithdrawStatus(id)
CGet ==
  /\ cron.pc = "c_get"
  /\ \/ CronBecomes([cron EXCEPT !.pc = "c_recv"])
     \/ CronBecomes(CronFail(ERR_STORE))
  /\ UNCHANGED <<workflow, withdrawStore, handlers, lastRaised, srcTxs, destTxs, attRequests,
                 audit>>
  /\ UNCHANGED depositSide

\* updateWithdrawStatus(_id, { status: 'attestation_received', ... })
CRecv ==
  /\ cron.pc = "c_recv"
  /\ \/ /\ WWrite(cron.id, [status |-> "attestation_received",
                            attestationMessage |-> "message",
                            attestation |-> "attestation"])
        /\ CronBecomes([cron EXCEPT !.pc = "c_submit"])
     \/ /\ CronBecomes(CronThrow(ERR_STORE))
        /\ UNCHANGED <<withdrawStore, audit>>
  /\ UNCHANGED <<workflow, handlers, lastRaised, srcTxs, destTxs, attRequests>>
  /\ UNCHANGED depositSide

\* a settlement issued on the chain the record came from
ProcessWithdrawDomainOfSource(doc) == doc.srcChainDomain

\* callProcessWithdraw: the contract, chain and client all come from domain 14,
\* whatever the document says
ProcessWithdrawDomain(doc) ==
  WORLD

\* callProcessWithdraw: contract.write.processWithdraw([message, attestation])
CSubmit ==
  /\ cron.pc = "c_submit"
  /\ \/ /\ destTxs' = Append(destTxs,
                     [doc |-> cron.id, receipt |-> "sent",
                      chain |-> ProcessWithdrawDomain(withdrawStore[cron.id])])
        /\ CronBecomes([cron EXCEPT !.pc = "c_receipt", !.tx = Len(destTxs) + 1])
     \/ /\ CronBecomes(CronThrow(ERR_W_SUBMIT))
        /\ UNCHANGED destTxs
  /\ UNCHANGED <<workflow, withdrawStore, handlers, lastRaised, srcTxs, attRequests, audit>>
  /\ UNCHANGED depositSide

\* callProcessWithdraw: waitForTransactionReceipt({ hash, timeout: 60000 })
CReceipt ==
  /\ cron.pc = "c_receipt"
  /\ \E receipt \in {"success", "reverted", "timeout"} :
       /\ destTxs' = [destTxs EXCEPT ![cron.tx].receipt = receipt]
       /\ CASE receipt = "success"  -> CronBecomes([cron EXCEPT !.pc = "c_processing"])
            [] receipt = "reverted" -> CronBecomes(CronThrow(ERR_W_REVERT))
            [] OTHER                -> CronBecomes(CronThrow(ERR_W_RECEIPT_TIMEOUT))
  /\ UNCHANGED <<workflow, withdrawStore, handlers, lastRaised, srcTxs, attRequests, audit>>
  /\ UNCHANGED depositSide

\* updateWithdrawStatus(_id, { status: 'processing_withdraw', processWithdrawTxHash })
CProcessing ==
  /\ cron.pc = "c_processing"
  /\ \/ /\ WWrite(cron.id, [status |-> "processing_withdraw",
                            processWithdrawTxHash |-> cron.tx])
        /\ CronBecomes([cron EXCEPT !.pc = "c_complete"])
     \/ /\ CronBecomes(CronThrow(ERR_STORE))
        /\ UNCHANGED <<withdrawStore, audit>>
  /\ UNCHANGED <<workflow, handlers, lastRaised, srcTxs, destTxs, attRequests>>
  /\ UNCHANGED depositSide

\* updateWithdrawStatus(_id, { status: 'completed' }); return withdrawStatus
CComplete ==
  /\ cron.pc = "c_complete"
  /\ \/ /\ WWrite(cron.id, [status |-> "completed"])
        /\ CronBecomes(LoopOver(cron.pending))
     \/ /\ CronBecomes(CronThrow(ERR_STORE))
        /\ UNCHANGED <<withdrawStore, audit>>
  /\ UNCHANGED <<workflow, handlers, lastRaised, srcTxs, destTxs, attRequests>>
  /\ UNCHANGED depositSide

\* processWithdrawWithAttestation, catch (error):
\*   updateWithdrawStatus(_id, { status: 'failed', errorMessage }); throw error
CCatch ==
  /\ cron.pc = "c_catch"
  /\ \/ /\ WWrite(cron.id, [status |-> "failed", errorMessage |-> cron.err])
        /\ CronBecomes(CronFail(cron.err))
     \/ /\ CronBecomes(CronFail(ERR_STORE))
        /\ UNCHANGED <<withdrawStore, audit>>
  /\ UNCHANGED <<workflow, handlers, lastRaised, srcTxs, destTxs, attRequests>>
  /\ UNCHANGED depositSide

\* processIndividualWithdraw, catch (error): a message that includes 'timeout'
\* is left for the next tick, any other marks the document failed (an error of
\* that update is logged and dropped)
CFail ==
  /\ cron.pc = "c_fail"
  /\ \/ /\ IncludesTimeout(cron.err)
        /\ UNCHANGED <<withdrawStore, audit>>
     \/ /\ ~IncludesTimeout(cron.err)
        /\ WWrite(cron.id, [status |-> "failed", errorMessage |-> cron.err])
     \/ /\ ~IncludesTimeout(cron.err)
        /\ UNCHANGED <<withdrawStore, audit>>
  /\ CronBecomes(AfterFailure(cron.pending))
  /\ UNCHANGED <<workflow, handlers, lastRaised, srcTxs, destTxs, attRequests>>
  /\ UNCHANGED depositSide

Next ==
  \/ \E r \in BagToSet(handlers) :
       \/ Request(r)
       \/ InitFind(r)
       \/ InitCreate(r)
       \/ ResumeFind(r)
       \/ ResumeMark(r)
       \/ Poll(r)
       \/ Polled(r)
       \/ ProcessDeposit(r)
       \/ Receipt(r)
       \/ Confirm(r)
       \/ Complete(r)
       \/ Catch(r)
       \/ WRequest(r)
       \/ WCheck(r)
       \/ WNoPosition(r)
       \/ WCreate(r)
       \/ WSubmit(r)
       \/ WReceipt(r)
       \/ WUpdate(r)
  \/ Tick
  \/ Query
  \/ CPoll
  \/ CGet
  \/ CRecv
  \/ CSubmit
  \/ CReceipt
  \/ CProcessing
  \/ CComplete
  \/ CCatch
  \/ CFail

Spec == Init /\ [][Next]_vars
(* ======================================================================= *)
(* Properties                                                              *)
(* ======================================================================= *)
DepositIds == 1..Len(depositStore)
WithdrawIds == 1..Len(withdrawStore)

\* the request in state r takes the step
Moved(r) == CopiesIn(r, handlers') < CopiesIn(r, handlers)

\* a request finishes (its service call returns or raises) in the step
Finishes(r) ==
  /\ Moved(r)
  /\ CopiesIn(DoneHandler, handlers') > CopiesIn(DoneHandler, handlers)

\* the positions of a request inside waitForConfirmationAndProcess
ResumePcs ==
  {"resume_find", "resume_mark", "poll", "polled", "process", "receipt", "confirm",
   "complete", "catch"}

\* the destination-chain transactions sent for a document
TxsOf(id) == {t \in 1..Len(destTxs) : destTxs[t].doc = id}

\* C1: for every deposit record and any interleaving of Resume calls, the
\* destination-chain processDeposit transaction is submitted at most once
C1_SubmittedAtMostOnce ==
  workflow = "deposit" => \A id \in DepositIds : Cardinality(TxsOf(id)) <= 1

\* C2: a call of initializedDeposit made after a call with the same
\* bridgeTransactionHash has returned yields the _id that call returned and
\* creates no DepositStatus document
C2_ReinitiateReturnsSameId ==
  \A r \in BagToSet(handlers) :
    r.prior # 0 =>
      /\ r.pc # "init_create"
      /\ ~r.created
      /\ r.pc = "resume_find" => r.initRet = r.prior

\* C2 witness: a later call has returned the _id of the first call
C2_Witness ==
  \E r \in BagToSet(handlers) :
    r.pc = "resume_find" /\ r.prior # 0 /\ r.initRet = r.prior

\* C3: under any interleaving of initializedDeposit calls with the same
\* bridgeTransactionHash the store holds one DepositStatus document for it
C3_OneRecordPerHash ==
  \A i, j \in DepositIds :
    depositStore[i].bridgeTransactionHash = depositStore[j].bridgeTransactionHash
      => i = j

\* the declared order of the deposit and the withdraw statuses
DepositRank(st) ==
  CASE st = "pending_attestation"  -> 1
    [] st = "attestation_received" -> 2
    [] st = "processing_deposit"   -> 3
    [] st = "deposit_confirmed"    -> 4
    [] st = "completed"            -> 5
    [] OTHER                       -> 6

WithdrawRank(st) ==
  CASE st = "checking_position"    -> 1
    [] st = "position_found"       -> 2
    [] st = "initiating_withdraw"  -> 3
    [] st = "withdraw_initiated"   -> 4
    [] st = "pending_attestation"  -> 5
    [] st = "attestation_received" -> 6
    [] st = "processing_withdraw"  -> 7
    [] st = "completed"            -> 8
    [] OTHER                       -> 9

\* a persisted status change advances, or enters failed from a non-terminal state
Forward(old, new, rankOld, rankNew) ==
  \/ new = old
  \/ new = "failed" /\ old # "completed"
  \/ new # "failed" /\ old # "failed" /\ rankNew > rankOld

\* C4: no operation writes an earlier status over a later one: every status
\* change advances along the declared order or enters failed from a
\* non-terminal state
C4_StatusNeverMovesBackward ==
  [][/\ \A id \in DepositIds :
          Forward(depositStore[id].status, depositStore'[id].status,
                  DepositRank(depositStore[id].status),
                  DepositRank(depositStore'[id].status))
     /\ \A id \in WithdrawIds :
          Forward(withdrawStore[id].status, withdrawStore'[id].status,
                  WithdrawRank(withdrawStore[id].status),
                  WithdrawRank(withdrawStore'[id].status))
    ]_vars

\* C5: a record becomes completed only if attestation_received with message
\* and proof was persisted on it before, and never directly from
\* pending_attestation
C5_CompletedOnlyAfterAttestation ==
  [][/\ \A id \in DepositIds :
          (depositStore'[id].status = "completed"
             /\ depositStore[id].status # "completed")
            => audit[id].attReceived
                 /\ depositStore[id].status # "pending_attestation"
     /\ \A id \in WithdrawIds :
          (withdrawStore'[id].status = "completed"
             /\ withdrawStore[id].status # "completed")
            => audit[id].attReceived
                 /\ withdrawStore[id].status # "pending_attestation"
    ]_vars

\* C6: Resume on a record whose status is completed is a no-op: its first
\* step after reading the record changes no document and the record stays
\* as it was
C6_ResumeOnCompletedIsNoOp ==
  [][/\ \A r \in BagToSet(handlers) :
          (r.pc = "resume_mark" /\ Moved(r)
             /\ depositStore[r.id].status = "completed")
            => depositStore' = depositStore
     /\ (cron.pc = "c_recv" /\ cron' # cron
           /\ withdrawStore[cron.id].status = "completed")
          => withdrawStore' = withdrawStore
    ]_vars

\* C7: the transition into completed is written at most once per record
C7_CompletedWrittenOnce ==
  \A id \in DOMAIN audit : audit[id].completedWrites <= 1

\* the document a request inside Resume works on
DocOf(r) == IF r.id # 0 THEN r.id ELSE FindOne(depositStore, r.hash)

\* C8: when a step of Resume raises, the record is persisted failed with the
\* error as errorMessage and that error is raised to the caller
C8_FailurePersistedAndReraised ==
  [][/\ \A r \in BagToSet(handlers) :
          (r.pc \in ResumePcs /\ Finishes(r) /\ lastRaised' # NoError)
            => /\ depositStore'[DocOf(r)].status = "failed"
               /\ depositStore'[DocOf(r)].errorMessage = lastRaised'
               /\ r.pc = "catch" => lastRaised' = r.err
     /\ (cron.pc \in {"c_get", "c_catch"} /\ cron'.pc = "c_fail")
          => /\ withdrawStore'[cron.id].status = "failed"
             /\ withdrawStore'[cron.id].errorMessage = cron'.err
             /\ cron.pc = "c_catch" => cron'.err = cron.err
    ]_vars

\* the errors of a destination-chain transaction that reverted or whose
\* confirmation timed out
ReceiptErrors == {ERR_REVERT, ERR_RECEIPT_TIMEOUT, ERR_W_REVERT, ERR_W_RECEIPT_TIMEOUT}

\* C9: the destination tx hash is set only from a transaction confirmed with
\* a success receipt; a Resume whose transaction reverted or timed out leaves
\* the record failed with an errorMessage and without destination tx hash
C9_DestTxHashOnlyAfterSuccess ==
  [][/\ \A id \in DepositIds :
          depositStore'[id].depositTxHash # 0
            => destTxs'[depositStore'[id].depositTxHash].receipt = "success"
     /\ \A id \in WithdrawIds :
          withdrawStore'[id].processWithdrawTxHash # 0
            => destTxs'[withdrawStore'[id].processWithdrawTxHash].receipt = "success"
     /\ \A r \in BagToSet(handlers) :
          (r.pc = "catch" /\ r.err \in ReceiptErrors /\ Moved(r))
            => /\ depositStore'[r.id].status = "failed"
               /\ depositStore'[r.id].errorMessage # NoError
               /\ depositStore'[r.id].depositTxHash = 0
     /\ (cron.pc = "c_catch" /\ cron.err \in ReceiptErrors /\ cron' # cron)
          => /\ withdrawStore'[cron.id].status = "failed"
             /\ withdrawStore'[cron.id].errorMessage # NoError
             /\ withdrawStore'[cron.id].processWithdrawTxHash = 0
    ]_vars

\* C10: a destination-chain call is attempted only for a record on which
\* attestation_received with message and proof has been persisted, and an
\* attestation is requested only for a record whose source transaction hash
\* is set
C10_EvidenceBeforeNextStage ==
  /\ \A t \in 1..Len(destTxs) : audit[destTxs[t].doc].attReceived
  /\ \A a \in attRequests : a.hashSet

\* C10 witness: an attestation was requested and the destination-chain call sent
C10_Witness ==
  /\ destTxs # <<>>
  /\ [hashSet |-> TRUE] \in attRequests
  /\ audit[destTxs[1].doc].attReceived

\* a field keeps the value it holds once that value is not empty
WriteOnce(old, new, empty) == old # empty => new = old

\* C11: every evidence field of a record (source tx hash, attestationMessage,
\* attestation, destination tx hash) is write-once: once it holds a non-empty
\* value no later operation changes or erases it
C11_EvidenceWriteOnce ==
  [][/\ \A id \in DepositIds :
          /\ WriteOnce(depositStore[id].bridgeTransactionHash,
                       depositStore'[id].bridgeTransactionHash, NoHash)
          /\ WriteOnce(depositStore[id].attestationMessage,
                       depositStore'[id].attestationMessage, "")
          /\ WriteOnce(depositStore[id].attestation, depositStore'[id].attestation, "")
          /\ WriteOnce(depositStore[id].depositTxHash, depositStore'[id].depositTxHash, 0)
     /\ \A id \in WithdrawIds :
          /\ WriteOnce(withdrawStore[id].initWithdrawTxHash,
                       withdrawStore'[id].initWithdrawTxHash, 0)
          /\ WriteOnce(withdrawStore[id].attestationMessage,
                       withdrawStore'[id].attestationMessage, "")
          /\ WriteOnce(withdrawStore[id].attestation, withdrawStore'[id].attestation, "")
          /\ WriteOnce(withdrawStore[id].processWithdrawTxHash,
                       withdrawStore'[id].processWithdrawTxHash, 0)
    ]_vars

\* the edges of the declared deposit graph
DepositEdges ==
  {<<"pending_attestation", "attestation_received">>,
   <<"attestation_received", "processing_deposit">>,
   <<"processing_deposit", "deposit_confirmed">>,
   <<"deposit_confirmed", "completed">>}
    \cup {<<st, "failed">> : st \in DepositStatuses \ {"completed", "failed"}}

\* C12: every status change persisted on a deposit record is an edge of the
\* declared graph pending_attestation -> attestation_received ->
\* processing_deposit -> deposit_confirmed -> completed, or an edge from a
\* non-terminal state into failed
C12_DepositFollowsDeclaredGraph ==
  [][\A id \in DepositIds :
       depositStore'[id].status # depositStore[id].status
         => <<depositStore[id].status, depositStore'[id].status>> \in DepositEdges
    ]_vars

\* C13: a withdraw initiation that found a position submits initWithdraw for
\* a record persisted in initiating_withdraw with its position snapshot, and
\* the record enters pending_attestation only from withdraw_initiated, where
\* the transaction hash was persisted
C13_WithdrawInitiatedBeforePending ==
  [][/\ Len(srcTxs') > Len(srcTxs)
          => LET doc == srcTxs'[Len(srcTxs')].doc IN
               /\ withdrawStore[doc].status = "initiating_withdraw"
               /\ withdrawStore[doc].position > 0
     /\ \A id \in WithdrawIds :
          (withdrawStore'[id].status = "pending_attestation"
             /\ withdrawStore[id].status # "pending_attestation")
            => /\ withdrawStore[id].status = "withdraw_initiated"
               /\ withdrawStore[id].initWithdrawTxHash # 0
    ]_vars

InitiatePcs == {"w_check", "w_nopos", "w_create", "w_submit", "w_receipt", "w_update"}

\* C15: when withdraw initiation returns successfully the record is in
\* pending_attestation with initWithdrawTxHash set, and no step of the
\* initiation polls the attestation service or submits processWithdraw
C15_InitiationReturnsBeforeSettlement ==
  [][\A r \in BagToSet(handlers) :
       (r.pc \in InitiatePcs /\ Moved(r))
         => /\ attRequests' = attRequests
            /\ destTxs' = destTxs
            /\ (Finishes(r) /\ lastRaised' = NoError)
                 => /\ r.pc = "w_update"
                    /\ withdrawStore'[r.id].status = "pending_attestation"
                    /\ withdrawStore'[r.id].initWithdrawTxHash # 0
                    /\ srcTxs[withdrawStore'[r.id].initWithdrawTxHash].receipt = "success"
                    /\ TxsOf(r.id) = {}
    ]_vars

\* C15 witness: an initiation has returned and nothing was polled or settled
C15_Witness ==
  /\ workflow = "withdraw"
  /\ lastRaised = NoError
  /\ CopiesIn(DoneHandler, handlers) > 0
  /\ \E id \in WithdrawIds :
       /\ withdrawStore[id].status = "pending_attestation"
       /\ withdrawStore[id].initWithdrawTxHash # 0
  /\ attRequests = {}
  /\ destTxs = <<>>

\* C16: an initiation for a userAddress that already has an initiated withdraw
\* record creates no second WithdrawStatus record and submits no second
\* source-chain initWithdraw
C16_WithdrawInitiationIdempotent ==
  [][\A r \in BagToSet(handlers) :
       (r.pc \in InitiatePcs /\ r.prior # 0 /\ Moved(r))
         => /\ Len(withdrawStore') = Len(withdrawStore)
            /\ srcTxs' = srcTxs
    ]_vars

\* C17: every withdraw record has the fixed destination chain 14 and every
\* processWithdraw call is issued on chain 14, whatever the source chain of
\* the record is
C17_FixedSettlementChain ==
  /\ \A id \in WithdrawIds : withdrawStore[id].dstChainDomain = 14
  /\ workflow = "withdraw" => \A t \in 1..Len(destTxs) : destTxs[t].chain = 14

\* C17 witness: a record found on domain 2 had its processWithdraw sent on chain 14
C17_Witness ==
  /\ workflow = "withdraw"
  /\ \E t \in 1..Len(destTxs) :
       /\ withdrawStore[destTxs[t].doc].srcChainDomain = 2
       /\ withdrawStore[destTxs[t].doc].dstChainDomain = 14
       /\ destTxs[t].chain = 14

(* ======================================================================= *)
(* The stateless components followed on their own                          *)
(* ======================================================================= *)
\* the variables of the services, which a component call leaves alone
serviceVars ==
  <<workflow, depositStore, withdrawStore, handlers, cron, isProcessing, destTxs,
    srcTxs, attRequests, firstReturned, audit, lastRaised>>

\* checkUserPosition is entered with what each chain will answer
ScanStarts ==
  {[NoUnit EXCEPT !.pc = "scan", !.reads = reads, !.i = 1] :
     reads \in [DomainSet -> ReadOutcomes]}

\* retrieveAttestation is entered with a hash (or none) and the service's answer
ClientStarts ==
  {[NoUnit EXCEPT !.pc = "get", !.hasHash = hasHash, !.resp = resp] :
     hasHash \in BOOLEAN, resp \in AttResponses}

\* the operations of one store, of bridge or of withdraw documents, start on
\* empty tables
StoreStarts == {[NoUnit EXCEPT !.pc = pc] : pc \in {"bridges", "withdraws"}}

UnitInit ==
  /\ workflow = "unit"
  /\ depositStore = <<>>
  /\ withdrawStore = <<>>
  /\ handlers = [r \in {IdleHandler} |-> NumHandlers]
  /\ cron = IdleCron
  /\ isProcessing = FALSE
  /\ destTxs = <<>>
  /\ srcTxs = <<>>
  /\ attRequests = {}
  /\ firstReturned = [x \in Hashes |-> 0]
  /\ audit = <<>>
  /\ lastRaised = NoError
  /\ unit \in ScanStarts \cup ClientStarts \cup StoreStarts

\* one iteration of the for loop of checkUserPosition: read positions() on the
\* next domain; pool > 0 returns, an empty or failed read continues
ScanRead ==
  /\ unit.pc = "scan"
  /\ unit.i <= Len(supportedDomains)
  /\ LET domain == supportedDomains[unit.i] IN
       unit' = IF unit.reads[domain] > 0
               THEN [unit EXCEPT !.pc = "scanned",
                                 !.queried = Append(@, domain),
                                 !.result = [chainDomain |-> domain,
                                             pool |-> unit.reads[domain]]]
               ELSE [unit EXCEPT !.queried = Append(@, domain), !.i = @ + 1]
  /\ UNCHANGED serviceVars

\* the loop of checkUserPosition is exhausted: return null
ScanDone ==
  /\ unit.pc = "scan"
  /\ unit.i > Len(supportedDomains)
  /\ unit' = [unit EXCEPT !.pc = "scanned", !.result = NoPosition]
  /\ UNCHANGED serviceVars

\* retrieveAttestation: the validation, the GET and what is made of its answer
ClientGet ==
  /\ unit.pc = "get"
  /\ unit' = [unit EXCEPT !.pc = "got",
                          !.out = RetrieveAttestation(unit.hasHash, unit.resp)]
  /\ UNCHANGED serviceVars

(* --------------------- the stores followed on their own ----------------- *)
\* the _id of a BridgeStatus document (an ObjectId), and of an entry of the
\* in-memory table (nextId.toString())
ObjectId(n) == [table |-> "db", n |-> n]
MemoryId(n) == [table |-> "memory", n |-> n]

\* the ids and hashes the store operations are called with
StoreIds == {ObjectId(n) : n \in 1..(MaxDocs + 1)} \cup {MemoryId(n) : n \in 1..(MaxDocs + 1)}
StoreHashes == {"0xburn", "0xother"}

\* findIndex(item => item._id === id) + 1: 0 when no entry has the id
IndexOfId(table, id) ==
  IF \E i \in 1..Len(table) : table[i]._id = id
  THEN CHOOSE i \in 1..Len(table) :
         /\ table[i]._id = id
         /\ \A j \in 1..(i - 1) : table[j]._id # id
  ELSE 0

\* find(item => item.transactionHash === txHash): 0 when no entry has the hash
IndexOfHash(table, hash) ==
  IF \E i \in 1..Len(table) : table[i].transactionHash = hash
  THEN CHOOSE i \in 1..Len(table) :
         /\ table[i].transactionHash = hash
         /\ \A j \in 1..(i - 1) : table[j].transactionHash # hash
  ELSE 0

\* the database stops or starts answering
Outage ==
  /\ unit.pc \in {"bridges", "withdraws"}
  /\ unit' = [unit EXCEPT !.reachable = ~@, !.last = NoCall]
  /\ UNCHANGED serviceVars

\* BridgeService.updateBridgeStatus(id, updates). With an id: findByIdAndUpdate;
\* a null result throws inside the try block, and that error, a cast error of
\* an id that is no ObjectId and a database error all reach the catch block,
\* which updates the entry of the in-memory table or throws not-found. Without
\* an id: save(), and in the catch block push onto the in-memory table.
UpdateBridgeStatus ==
  /\ unit.pc = "bridges"
  /\ \/ \E id \in StoreIds, status \in {"attestation_received", "failed"} :
          LET call == [op |-> "updateBridgeStatus", id |-> id, hash |-> NoHash,
                       ret |-> "ok"]
              durableAt == IndexOfId(unit.durable, id)
              memoryAt == IndexOfId(unit.bridgeStatusStorage, id)
          IN unit' =
               IF unit.reachable /\ durableAt # 0
               THEN [unit EXCEPT !.durable[durableAt].status = status, !.last = call]
               ELSE IF memoryAt # 0
               THEN [unit EXCEPT !.bridgeStatusStorage[memoryAt].status = status,
                                 !.last = call]
               ELSE [unit EXCEPT !.last = [call EXCEPT !.ret = ERR_BRIDGE_NOT_FOUND]]
     \/ /\ Len(unit.durable) + Len(unit.bridgeStatusStorage) < MaxDocs
        /\ \E hash \in StoreHashes :
             LET call == [op |-> "updateBridgeStatus", id |-> NoId, hash |-> hash,
                          ret |-> "ok"]
             IN unit' =
                  IF unit.reachable
                  THEN [unit EXCEPT
                          !.durable =
                             Append(@, [_id |-> ObjectId(Len(unit.durable) + 1),
                                        transactionHash |-> hash,
                                        status |-> "pending_attestation"]),
                          !.last = call]
                  ELSE [unit EXCEPT
                          !.bridgeStatusStorage =
                             Append(@, [_id |-> MemoryId(unit.nextId),
                                        transactionHash |-> hash,
                                        status |-> "pending_attestation"]),
                          !.nextId = @ + 1,
                          !.last = call]
  /\ UNCHANGED serviceVars

\* BridgeService.getBridgeStatus(id): findById, null when no document has the
\* id; the in-memory table is searched only in the catch block
GetBridgeStatus ==
  /\ unit.pc = "bridges"
  /\ \E id \in StoreIds :
       LET found == IF unit.reachable /\ id.table = "db"
                    THEN IndexOfId(unit.durable, id)
                    ELSE IndexOfId(unit.bridgeStatusStorage, id)
       IN unit' = [unit EXCEPT !.last = [op |-> "getBridgeStatus", id |-> id,
                                         hash |-> NoHash,
                                         ret |-> IF found # 0 THEN "ok" ELSE "null"]]
  /\ UNCHANGED serviceVars

\* BridgeService.getBridgeStatusByTxHash(txHash): findOne, null when no
\* document has the hash; the in-memory table is searched only in the catch block
GetBridgeStatusByTxHash ==
  /\ unit.pc = "bridges"
  /\ \E hash \in StoreHashes :
       LET found == IF unit.reachable
                    THEN IndexOfHash(unit.durable, hash)
                    ELSE IndexOfHash(unit.bridgeStatusStorage, hash)
       IN unit' = [unit EXCEPT !.last = [op |-> "getBridgeStatusByTxHash",
                                         id |-> NoId, hash |-> hash,
                                         ret |-> IF found # 0 THEN "ok" ELSE "null"]]
  /\ UNCHANGED serviceVars

\* WithdrawService.updateWithdrawStatus(id, updates) called on its own: a null
\* result of findByIdAndUpdate throws not-found, id undefined saves a new
\* document, and the catch block rethrows what the database throws
UpdateWithdraw ==
  /\ unit.pc = "withdraws"
  /\ \E n \in 0..(MaxDocs + 1), status \in {"attestation_received", "failed"} :
       LET call == [op |-> "updateWithdrawStatus", id |-> ObjectId(n),
                    hash |-> NoHash, ret |-> "ok"]
       IN /\ n = 0 => Len(unit.withdraws) < MaxDocs
          /\ unit' =
               IF ~unit.reachable
               THEN [unit EXCEPT !.last = [call EXCEPT !.ret = ERR_STORE]]
               ELSE IF n = 0
               THEN [unit EXCEPT
                       !.withdraws = Append(@, NewWithdraw(NoPosition, status, NoError)),
                       !.last = call]
               ELSE [unit EXCEPT
                       !.withdraws = UpdateWithdrawStatus(@, n, [status |-> status]),
                       !.last = IF n \in 1..Len(unit.withdraws) THEN call
                                ELSE [call EXCEPT !.ret = ERR_WITHDRAW_NOT_FOUND]]
  /\ UNCHANGED serviceVars

UnitNext ==
  \/ ScanRead
  \/ ScanDone
  \/ ClientGet
  \/ Outage
  \/ UpdateBridgeStatus
  \/ GetBridgeStatus
  \/ GetBridgeStatusByTxHash
  \/ UpdateWithdraw

UnitSpec == UnitInit /\ [][UnitNext]_vars

\* the places in the scan order where the read succeeds with pool id > 0
Hits(reads) ==
  {k \in 1..Len(supportedDomains) : reads[supportedDomains[k]] > 0}

\* the first of them
FirstHit(reads) ==
  CHOOSE k \in Hits(reads) : \A j \in Hits(reads) : k <= j

\* C18: checkUserPosition scans the configured chains in one fixed order and
\* returns the position and chain of the first one whose read succeeds with
\* pool id > 0, skipping empty and failed reads and querying no chain after
\* the one it returns; with chain A empty and chain B holding pool id 2 the
\* result is the chain-B position
C18_FirstPositionInOrder ==
  unit.pc = "scanned" =>
    /\ unit.result = CheckUserPosition(unit.reads)
    /\ IF Hits(unit.reads) = {}
       THEN /\ unit.result = NoPosition
            /\ unit.queried = supportedDomains
       ELSE LET k == FirstHit(unit.reads) IN
              /\ unit.result = [chainDomain |-> supportedDomains[k],
                                pool |-> unit.reads[supportedDomains[k]]]
              /\ unit.queried = SubSeq(supportedDomains, 1, k)
    /\ (unit.reads[0] = 0 /\ unit.reads[2] = 2)
         => unit.result = [chainDomain |-> 2, pool |-> 2]

\* C18 witness: chain 0 is empty, chain 2 holds pool 2, the scan stopped there
C18_Witness ==
  /\ unit.pc = "scanned"
  /\ unit.reads[0] = 0
  /\ unit.reads[2] = 2
  /\ unit.result = [chainDomain |-> 2, pool |-> 2]
  /\ unit.queried = <<0, 2>>

\* C19: the result of a scan whose read failed on every configured chain
\* differs from the result of a scan that read every chain and found it empty
C19_AllFailedDistinctFromEmpty ==
  (unit.pc = "scanned" /\ \A d \in DomainSet : unit.reads[d] = -1)
    => unit.result # CheckUserPosition([d \in DomainSet |-> 0])

\* C20: retrieveAttestation, given an answer whose status is not complete,
\* returns the not-ready outcome without raising, and returns message and
\* proof only when the status is complete
C20_PendingIsNotReady ==
  unit.pc = "got" =>
    /\ (unit.hasHash /\ unit.resp = "pending") => unit.out = "null"
    /\ unit.out = "data" => unit.resp = "complete"
    /\ (unit.hasHash /\ unit.resp = "complete") => unit.out = "data"

\* C20 witness: a pending answer was turned into the not-ready outcome
C20_Witness ==
  /\ unit.pc = "got"
  /\ unit.hasHash
  /\ unit.resp = "pending"
  /\ unit.out = "null"

\* C21: when the attestation service reports not-found for the transaction,
\* the client raises an error, an outcome distinct from not-yet-ready, so that
\* the record is resolved to failed and not polled again on every tick
C21_NotFoundIsTerminal ==
  (unit.pc = "got" /\ unit.hasHash /\ unit.resp = "http404")
    => /\ unit.out = "throw"
       /\ unit.out # RetrieveAttestation(TRUE, "pending")

\* the status a writer has persisted last before it writes st: the update
\* keyed on the expected prior status that a serialised transition would make
ExpectedPrior(st) ==
  CASE st = "attestation_received" -> {"pending_attestation"}
    [] st = "deposit_confirmed"    -> {"attestation_received"}
    [] st = "processing_withdraw"  -> {"attestation_received"}
    [] st = "completed"            -> {"deposit_confirmed", "processing_withdraw"}
    [] st = "failed"               -> (DepositStatuses \cup WithdrawStatuses)
                                        \ {"completed", "failed"}
    [] OTHER                       -> DepositStatuses \cup WithdrawStatuses

\* C22: concurrent transitions of one record are serialised against its latest
\* persisted state: a writer changes the status only from the status it
\* persisted last, so no writer overwrites another writer's update from a
\* stale read
C22_TransitionsSerialised ==
  [][/\ \A id \in DepositIds :
          depositStore'[id].status # depositStore[id].status
            => depositStore[id].status \in ExpectedPrior(depositStore'[id].status)
     /\ \A id \in WithdrawIds :
          withdrawStore'[id].status # withdrawStore[id].status
            => withdrawStore[id].status \in ExpectedPrior(withdrawStore'[id].status)
    ]_vars

\* the id names a document of the collection the operation works on
HasRecord(u, call) ==
  IF call.op = "updateWithdrawStatus"
  THEN call.id.n \in 1..Len(u.withdraws)
  ELSE \/ IndexOfId(u.durable, call.id) # 0
       \/ IndexOfId(u.bridgeStatusStorage, call.id) # 0

C24_FallbackEquivalent ==
  (~unit.reachable /\ unit.last.op # "")
    => /\ unit.last.ret # ERR_STORE
       /\ (unit.last.id.n # 0 /\ HasRecord(unit, unit.last)) => unit.last.ret = "ok"
       /\ (/\ unit.last.op = "getBridgeStatusByTxHash"
           /\ \/ IndexOfHash(unit.durable, unit.last.hash) # 0
              \/ IndexOfHash(unit.bridgeStatusStorage, unit.last.hash) # 0)
            => unit.last.ret = "ok"

\* C25: an initiation request with bad input (a withdraw address without the
\* 0x prefix or not 42 characters long; a deposit body with a required field
\* missing, the source transaction hash included, or with an unsupported chain
\* id or protocol) is rejected before any state is created: the step that
\* takes the request in touches no record and sends no transaction, and no
\* record is ever created from such a request
C25_BadInputCreatesNothing ==
  [][/\ (\E r \in BagToSet(handlers) : r.pc = "idle" /\ Moved(r))
          => UNCHANGED <<depositStore, withdrawStore, srcTxs, destTxs>>
     /\ \A id \in 1..Len(depositStore') :
          id > Len(depositStore) => depositStore'[id].bridgeTransactionHash # NoHash
     /\ \A id \in 1..Len(withdrawStore') :
          id > Len(withdrawStore) => ValidAddress(withdrawStore'[id].userAddress)
    ]_vars

\* C26: only the service (initiation and processWithdrawWithAttestation)
\* writes the status failed; the scheduler's own code writes no status: the
\* step of its catch block leaves every withdraw record's status as it was
C26_SchedulerWritesNoStatus ==
  [][cron.pc = "c_fail"
       => \A id \in WithdrawIds : withdrawStore'[id].status = withdrawStore[id].status
    ]_vars

\* C27: at most one scheduler pass is in progress: a pass starts only when
\* none is running, and a tick that fires during a pass returns at once,
\* querying nothing, polling no attestation and touching no record
C27_OnePassAtATime ==
  [][/\ (cron'.pc = "query" /\ cron.pc # "query") => (cron.pc = "idle" /\ ~isProcessing)
     /\ (isProcessing /\ cron'.skipped /\ ~cron.skipped)
          => /\ cron' = [cron EXCEPT !.skipped = TRUE]
             /\ UNCHANGED <<isProcessing, withdrawStore, attRequests, destTxs, audit>>
    ]_vars

\* a tick fired and was turned away while the pass was waiting for a receipt
C27_Witness ==
  /\ cron.skipped
  /\ isProcessing
  /\ cron.pc = "c_receipt"

\* an error whose message mentions a timeout: of the attestation request or
\* of the wait for the confirmation of the settlement
MentionsTimeout(e) == e \in {ERR_RETRIEVE_TIMEOUT, ERR_W_RECEIPT_TIMEOUT}

\* C28: when processing a record in a pass fails with an error that mentions a
\* timeout (attestation or confirmation timeout), the record is left as the
\* pass found it, in pending_attestation and not failed, for the next tick
C28_TimeoutLeavesRecordPending ==
  [][(cron.pc = "c_fail" /\ MentionsTimeout(cron.err))
       => withdrawStore'[cron.id].status = "pending_attestation"
    ]_vars

\* C29: a failure on one record does not end the pass: when the pass ends,
\* processIndividualWithdraw has been called once with every record the query
\* returned, in the order returned, and never with any other
C29_EverySelectedAttemptedOnce ==
  [][/\ (cron.pc \notin {"idle", "query"} /\ cron'.pc = "idle")
          => cron.attempted = cron.selected
     /\ Len(cron'.attempted) <= Len(cron'.selected)
     /\ cron'.attempted = SubSeq(cron'.selected, 1, Len(cron'.attempted))
     /\ \A j, k \in 1..Len(cron'.selected) :
          j # k => cron'.selected[j] # cron'.selected[k]
    ]_vars

\* the first record of a pass has failed and the pass is at the second
C29_Witness ==
  /\ cron.pc = "c_poll"
  /\ Len(cron.attempted) = 2
  /\ withdrawStore[cron.attempted[1]].status = "failed"

\* C30: a pass takes up only records in pending_attestation with a source
\* transaction hash, oldest first, and writes to no record but the one it has
\* taken up, which is in pending_attestation until the pass first writes to it
C30_PassActsOnPendingOnly ==
  [][/\ cron'.pc \in {"c_poll", "c_get", "c_recv"}
          => /\ withdrawStore'[cron'.id].status = "pending_attestation"
             /\ withdrawStore'[cron'.id].initWithdrawTxHash # 0
     /\ \A k \in 1..(Len(cron'.selected) - 1) :
          cron'.selected[k] < cron'.selected[k + 1]
     /\ handlers' = handlers
          => \A id \in WithdrawIds :
               withdrawStore'[id] # withdrawStore[id]
                 => /\ id = cron.id
                    /\ cron.pc \notin {"idle", "query"}
    ]_vars

\* the pass writes attestation_received to the second of two records, which
\* it took up after the first
C30_Witness ==
  /\ cron.pc = "c_submit"
  /\ cron.id = 2
  /\ cron.selected = <<1, 2>>
  /\ withdrawStore[2].status = "attestation_received"

(* ======================================================================= *)
(* Progress                                                                *)
(* ======================================================================= *)
\* a step of the running pass: every await of processPendingAttestations returns
PassStep ==
  \/ Query
  \/ CPoll
  \/ CGet
  \/ CRecv
  \/ CSubmit
  \/ CReceipt
  \/ CProcessing
  \/ CComplete
  \/ CCatch
  \/ CFail

\* a step of a request inside its service call: every await of the services returns
RequestStep ==
  \E r \in BagToSet(handlers) :
    \/ InitFind(r)
    \/ InitCreate(r)
    \/ ResumeFind(r)
    \/ ResumeMark(r)
    \/ Poll(r)
    \/ Polled(r)
    \/ ProcessDeposit(r)
    \/ Receipt(r)
    \/ Confirm(r)
    \/ Complete(r)
    \/ Catch(r)
    \/ WCheck(r)
    \/ WNoPosition(r)
    \/ WCreate(r)
    \/ WSubmit(r)
    \/ WReceipt(r)
    \/ WUpdate(r)

\* the selection query answers, and finds a record: a database that keeps
\* being asked does not fail every time
QueryAnswers == Query /\ cron'.pc = "c_poll"

\* the attestation of a record that keeps being polled becomes ready
AttestationReady == CPoll /\ cron'.pc = "c_get"

\* The scheduler ticks every two minutes and awaited calls return; clients are
\* free to send no further request.
LiveSpec ==
  /\ Spec
  /\ WF_vars(Tick)
  /\ WF_vars(PassStep)
  /\ WF_vars(RequestStep)
  /\ SF_vars(QueryAnswers)
  /\ SF_vars(AttestationReady)

\* record id waits for its attestation with its source transaction hash stored
AwaitsAttestation(id) ==
  /\ id \in WithdrawIds
  /\ withdrawStore[id].status = "pending_attestation"
  /\ withdrawStore[id].initWithdrawTxHash # 0

\* the settlement of record id on the destination chain did not succeed, or
\* the database rejected an operation of the pass on it
SettlementFailed(id) ==
  \/ \E t \in 1..Len(destTxs) :
       destTxs[t].doc = id /\ destTxs[t].receipt \in {"reverted", "timeout"}
  \/ cron.id = id /\ cron.err \in {ERR_W_SUBMIT, ERR_STORE}

\* C31: with the scheduler ticking, every withdraw record waiting in
\* pending_attestation whose attestation becomes ready and whose settlement on
\* the destination chain succeeds reaches completed, without a further request
C31_PendingWithdrawCompletes ==
  \A id \in 1..NumHandlers :
    AwaitsAttestation(id)
      ~> (\/ id \in WithdrawIds /\ withdrawStore[id].status = "completed"
          \/ SettlementFailed(id))

\* The process stops and is started again: the requests in flight and the
\* running pass are gone with their locals, isProcessing is FALSE again in the
\* new CronService; the collections and the transactions already sent remain.
Restart ==
  /\ \/ cron.pc # "idle"
     \/ \E r \in BagToSet(handlers) : r.pc \notin {"idle", "done"}
  /\ LET idle == CopiesIn(IdleHandler, handlers) IN
       handlers' = (IF idle > 0 THEN [r \in {IdleHandler} |-> idle] ELSE EmptyBag)
                     (+) (IF idle < NumHandlers
                          THEN [r \in {DoneHandler} |-> NumHandlers - idle]
                          ELSE EmptyBag)
  /\ cron' = IdleCron
  /\ isProcessing' = FALSE
  /\ UNCHANGED <<workflow, depositStore, withdrawStore, destTxs, srcTxs, attRequests,
                 firstReturned, audit, lastRaised, unit>>

RestartNext ==
  \/ Next
  \/ Restart

\* the services with restarts of the process, which may come at any point and
\* need never come; ticks and awaited calls as in LiveSpec
RestartSpec ==
  /\ Init
  /\ [][RestartNext]_vars
  /\ WF_vars(Tick)
  /\ WF_vars(PassStep)
  /\ WF_vars(RequestStep)
  /\ SF_vars(QueryAnswers)
  /\ SF_vars(AttestationReady)

\* the source-chain transaction of record id is confirmed: the initWithdraw
\* receipt of a withdraw, the bridge transaction a deposit was created for
SourceConfirmed(id) ==
  \/ /\ workflow = "withdraw"
     /\ id \in WithdrawIds
     /\ \E t \in 1..Len(srcTxs) : srcTxs[t].doc = id /\ srcTxs[t].receipt = "success"
  \/ /\ workflow = "deposit"
     /\ id \in DepositIds
     /\ depositStore[id].bridgeTransactionHash # NoHash

\* record id is completed or failed
Terminal(id) ==
  \/ /\ workflow = "withdraw"
     /\ id \in WithdrawIds
     /\ withdrawStore[id].status \in {"completed", "failed"}
  \/ /\ workflow = "deposit"
     /\ id \in DepositIds
     /\ depositStore[id].status \in {"completed", "failed"}

\* no call to the store has been rejected in a request or in the pass
NoStoreFault ==
  /\ lastRaised # ERR_STORE
  /\ cron.err # ERR_STORE

\* C32: whenever the process stops and restarts, every record whose
\* source-chain transaction was confirmed is taken up again and reaches
\* completed or failed; none stays in a non-terminal status for ever (stated
\* for the withdraw records, whose statuses the sentence names, and for the
\* behaviours in which the store rejects no call)
C32_RestartedRecordsTerminate ==
  \A id \in 1..NumHandlers :
    []NoStoreFault => ((workflow = "withdraw" /\ SourceConfirmed(id)) ~> Terminal(id))

(* ------------------------------ Termination ------------------------------ *)
\* request r2 appears in the step
Arrives(r2) == CopiesIn(r2, handlers') > CopiesIn(r2, handlers)

C34_FlagReleasedWhenPassEnds ==
  [][/\ isProcessing <=> cron.pc # "idle"
     /\ isProcessing' <=> cron'.pc # "idle"
     /\ (cron.pc # "idle" /\ cron'.pc = "idle") => ~isProcessing'
     /\ (cron'.skipped /\ ~cron.skipped) => cron.pc # "idle"
     /\ (cron.pc = "idle" /\ cron' # cron) => (cron'.pc = "query" /\ ~cron'.skipped)
    ]_vars

\* C34 witness: a pass in which a record raised has ended and the flag is
\* released
C34_Witness ==
  /\ cron.pc = "idle"
  /\ ~isProcessing
  /\ \E id \in WithdrawIds :
       /\ withdrawStore[id].status = "failed"
       /\ withdrawStore[id].errorMessage = ERR_RETRIEVE

(* ------------------------------ Frame of a pass -------------------------- *)
\* C35: when the attestation of the record a pass works on is not ready yet,
\* the pass goes on to the next record (or ends) with the record as it was
\* (status, evidence, errorMessage) and without sending a transaction
C35_NotReadyLeavesRecordUnchanged ==
  [][CPollAnswers("pending")
       => /\ withdrawStore' = withdrawStore
          /\ destTxs' = destTxs
          /\ srcTxs' = srcTxs
          /\ cron'.pc \in {"idle", "c_poll"}
          /\ cron'.err = NoError
    ]_vars

\* C35 witness: the pass has gone past a first record, still in
\* pending_attestation without errorMessage and without a transaction, to a
\* second one
C35_Witness ==
  /\ cron.pc = "c_poll"
  /\ Len(cron.attempted) = 2
  /\ attRequests # {}
  /\ LET id == cron.attempted[1] IN
       /\ withdrawStore[id].status = "pending_attestation"
       /\ withdrawStore[id].errorMessage = NoError
       /\ withdrawStore[id].attestation = ""
       /\ \A t \in 1..Len(destTxs) : destTxs[t].doc # id

(* --------------------------- Failed initiation --------------------------- *)
\* C36: when the submission or the confirmation of initWithdraw fails during
\* initiation, the store holds no record for the attempt or a failed one;
\* none is left in initiating_withdraw
C36_FailedInitiationLeavesNoOpenRecord ==
  [][\A r \in BagToSet(handlers) :
       (r.pc \in {"w_submit", "w_receipt"} /\ Finishes(r) /\ lastRaised' # NoError)
         => \/ r.id \notin 1..Len(withdrawStore')
            \/ withdrawStore'[r.id].status = "failed"
    ]_vars

(* ------------------------------ Error detail ----------------------------- *)
\* C37: errorMessage is written only together with status failed, so a record
\* whose status is not failed carries no errorMessage
C37_ErrorMessageOnlyOnFailed ==
  /\ \A id \in DepositIds :
       depositStore[id].status # "failed" => depositStore[id].errorMessage = NoError
  /\ \A id \in WithdrawIds :
       withdrawStore[id].status # "failed" => withdrawStore[id].errorMessage = NoError

(* --------------------------- Position snapshot --------------------------- *)
\* C38: the position snapshot and the source chain a withdraw record is
\* created with (and the user it is created for) are changed by no later
\* transition of the record; records are never removed
C38_SnapshotNeverChanges ==
  [][/\ Len(withdrawStore') >= Len(withdrawStore)
     /\ \A id \in WithdrawIds :
          /\ withdrawStore'[id].position = withdrawStore[id].position
          /\ withdrawStore'[id].srcChainDomain = withdrawStore[id].srcChainDomain
          /\ withdrawStore'[id].userAddress = withdrawStore[id].userAddress
    ]_vars

\* C38 witness: a record has gone through every transition to completed and
\* still holds the position and the source chain it was created with
C38_Witness ==
  \E id \in WithdrawIds :
    /\ withdrawStore[id].status = "completed"
    /\ withdrawStore[id].processWithdrawTxHash # 0
    /\ withdrawStore[id].position # NoPosition.pool
    /\ withdrawStore[id].srcChainDomain \in PositionDomains
====
